---- MODULE Spec2Model ----
(***************************************************************************)
(* Model of the two text-processing actions of the repository:             *)
(*   - the JavaScript action  (action-javascript/index.js: run,            *)
(*     analyzeText, transformText, validateText), and                      *)
(*   - the docker action's entrypoint.sh (argument validation, the         *)
(*     case "$PROCESS_TYPE" dispatch, the GITHUB_OUTPUT writes).           *)
(*                                                                         *)
(* A text is a sequence of characters.  The docker script sees a text as   *)
(* a sequence of code points; JavaScript sees it as a sequence of UTF-16   *)
(* code units, so a code point outside the BMP is two units there.         *)
(***************************************************************************)
EXTENDS Integers, Sequences, FiniteSets, TLC

(***************************************************************************)
(* Bounds of the model.                                                    *)
(***************************************************************************)
MaxLen == 2      \* longest text enumerated exhaustively
MaxClock == 1    \* the clock reads 0..MaxClock

(***************************************************************************)
(* Characters.  "e_acute" / "E_ACUTE" stand for U+00E9 / U+00C9 (a letter  *)
(* outside ASCII), "emoji" for a code point outside the BMP, whose UTF-16  *)
(* form is the surrogate pair <<"hs", "ls">>.                              *)
(***************************************************************************)
LowerLetters == <<"a","b","c","d","e","f","g","h","i","j","k","l","m",
                  "n","o","p","q","r","s","t","u","v","w","x","y","z">>
UpperLetters == <<"A","B","C","D","E","F","G","H","I","J","K","L","M",
                  "N","O","P","Q","R","S","T","U","V","W","X","Y","Z">>

Range(s) == {s[i] : i \in DOMAIN s}

AsciiLower == Range(LowerLetters)
AsciiUpper == Range(UpperLetters)
AsciiLetters == AsciiLower \cup AsciiUpper

\* the characters texts are built from
Chars == {"e", "E", "1", " ", "\n", "-", "e_acute", "emoji"}

\* code points that are letters (Unicode general category L)
Alphabetic == AsciiLetters \cup {"e_acute", "E_ACUTE"}

\* white space: what /\s/, wc -w and String.prototype.trim treat as blank
WhiteSpace == {" ", "\n", "\t"}
IsSpace(c) == c \in WhiteSpace

(***************************************************************************)
(* Sequence helpers.  They are written without deep recursion (halving     *)
(* instead of peeling one element) so that texts longer than the 1000      *)
(* character limit of validateText can be evaluated.                       *)
(***************************************************************************)
\* String.prototype.slice(from - 1, to): the characters from..to that exist
Slice(s, from, to) ==
  LET hi == IF to < Len(s) THEN to ELSE Len(s)
  IN  [i \in 1..(hi - from + 1) |-> s[from + i - 1]]

Reverse(s) == [i \in 1..Len(s) |-> s[Len(s) + 1 - i]]

Repeat(c, n) == [i \in 1..n |-> c]

RECURSIVE Concat(_)
Concat(ss) ==
  IF Len(ss) = 0 THEN <<>>
  ELSE IF Len(ss) = 1 THEN ss[1]
  ELSE LET h == Len(ss) \div 2
       IN  Concat(Slice(ss, 1, h)) \o Concat(Slice(ss, h + 1, Len(ss)))

\* Array.prototype.join(sep)
Join(parts, sep) ==
  Concat([i \in 1..Len(parts) |-> IF i = 1 THEN parts[i] ELSE sep \o parts[i]])

\* String.prototype.split(sep) for a separator of one character (any of seps): every
\* separator character ends a segment, so there is one segment more than
\* there are separators ("" gives one empty segment).
SeparatorPositions(s, seps) == {i \in 1..Len(s) : s[i] \in seps}
\* position of the j-th separator; 0 and Len + 1 bracket the text
Boundary(s, seps, j) ==
  LET P == SeparatorPositions(s, seps)
  IN  IF j = 0 THEN 0
      ELSE IF j > Cardinality(P) THEN Len(s) + 1
      ELSE CHOOSE p \in P : Cardinality({q \in P : q < p}) = j - 1
SplitEach(s, seps) ==
  [ j \in 1..(Cardinality(SeparatorPositions(s, seps)) + 1) |->
      Slice(s, Boundary(s, seps, j - 1) + 1, Boundary(s, seps, j) - 1) ]

\* String.prototype.split(/\s+/): a maximal run of white space is one
\* separator, so no empty segment appears between two separators; only the
\* first and the last segment can be empty.
SplitWhitespaceRuns(s) ==
  LET parts == SplitEach(s, WhiteSpace)
      n     == Len(parts)
      idx   == [i \in 1..n |-> <<i, parts[i]>>]
      kept  == SelectSeq(idx, LAMBDA p : p[1] = 1 \/ p[1] = n \/ p[2] # <<>>)
  IN  [i \in 1..Len(kept) |-> kept[i][2]]

\* index of the last character that is not in the set P (0 when there is
\* none), and of the first one (Len + 1 when there is none)
LastNot(s, P) ==
  CHOOSE i \in 0..Len(s) :
    /\ i = 0 \/ s[i] \notin P
    /\ \A j \in (i + 1)..Len(s) : s[j] \in P
FirstNot(s, P) ==
  CHOOSE i \in 1..(Len(s) + 1) :
    /\ i = Len(s) + 1 \/ s[i] \notin P
    /\ \A j \in 1..(i - 1) : s[j] \in P

\* String.prototype.trim
Trim(s) == Slice(s, FirstNot(s, WhiteSpace), LastNot(s, WhiteSpace))

(***************************************************************************)
(* Case mapping.                                                           *)
(***************************************************************************)
IndexOf(seq, c) == CHOOSE i \in DOMAIN seq : seq[i] = c

AsciiToLower(c) == IF c \in AsciiUpper THEN LowerLetters[IndexOf(UpperLetters, c)] ELSE c
AsciiToUpper(c) == IF c \in AsciiLower THEN UpperLetters[IndexOf(LowerLetters, c)] ELSE c

\* String.prototype.toLowerCase / toUpperCase, per UTF-16 code unit: the
\* Unicode mapping, which also folds letters outside ASCII; surrogates have
\* no case.
JsLowerUnit(c) == IF c = "E_ACUTE" THEN "e_acute" ELSE AsciiToLower(c)
JsUpperUnit(c) == IF c = "e_acute" THEN "E_ACUTE" ELSE AsciiToUpper(c)
toLowerCase(s) == [i \in 1..Len(s) |-> JsLowerUnit(s[i])]
toUpperCase(s) == [i \in 1..Len(s) |-> JsUpperUnit(s[i])]

(***************************************************************************)
(* UTF-16: the JavaScript string of a text.                                *)
(***************************************************************************)
Utf16(c) == IF c = "emoji" THEN <<"hs", "ls">> ELSE <<c>>
JsString(text) == Concat([i \in 1..Len(text) |-> Utf16(text[i])])

(***************************************************************************)
(* index.js: the helper functions.  Their argument is a JavaScript string, *)
(* i.e. a sequence of UTF-16 code units.                                   *)
(***************************************************************************)
NonEmpty(w) == Len(w) > 0

\* (sum / n).toFixed(2): the quotient rounded to hundredths, as a string;
\* it is kept here as the number of hundredths under the tag "fixed2".
toFixed2(sum, n) == <<"fixed2", (200 * sum + n) \div (2 * n)>>

\* variants of analyzeText with one field computed differently
analyzeTextExactUnique(text) ==
  LET lines == SplitEach(text, {"\n"})
      words == SelectSeq(SplitWhitespaceRuns(text), NonEmpty)
      uniqueWords == Cardinality({words[i] : i \in DOMAIN words})
  IN  [ charCount     |-> Len(text),
        wordCount     |-> Len(words),
        lineCount     |-> Len(lines),
        uniqueWords   |-> uniqueWords,
        avgWordLength |-> IF Len(words) > 0
                          THEN toFixed2(Len(Concat(words)), Len(words))
                          ELSE <<"number", 0>> ]

analyzeTextNonEmptyLines(text) ==
  LET lines == SelectSeq(SplitEach(text, {"\n"}), NonEmpty)
      words == SelectSeq(SplitWhitespaceRuns(text), NonEmpty)
      uniqueWords == Cardinality({toLowerCase(words[i]) : i \in DOMAIN words})
  IN  [ charCount     |-> Len(text),
        wordCount     |-> Len(words),
        lineCount     |-> Len(lines),
        uniqueWords   |-> uniqueWords,
        avgWordLength |-> IF Len(words) > 0
                          THEN toFixed2(Len(Concat(words)), Len(words))
                          ELSE <<"number", 0>> ]

analyzeText(text) ==
  LET lines == SplitEach(text, {"\n"})
      words == SelectSeq(SplitWhitespaceRuns(text), NonEmpty)
      uniqueWords == Cardinality({toLowerCase(words[i]) : i \in DOMAIN words})
  IN  [ charCount     |-> Len(text),
        wordCount     |-> Len(words),
        lineCount     |-> Len(lines),
        uniqueWords   |-> uniqueWords,
        avgWordLength |-> IF Len(words) > 0
                          THEN toFixed2(Len(Concat(words)), Len(words))
                          ELSE <<"number", 0>> ]

\* word.charAt(0).toUpperCase() + word.slice(1).toLowerCase()
CapitalizeWord(word) ==
  toUpperCase(Slice(word, 1, 1)) \o toLowerCase(Slice(word, 2, Len(word)))

transformText(text) ==
  [ uppercase   |-> toUpperCase(text),
    lowercase   |-> toLowerCase(text),
    reversed    |-> Reverse(text),
    capitalized |->
      LET words == SplitEach(text, {" "})
      IN  Join([i \in 1..Len(words) |-> CapitalizeWord(words[i])], <<" ">>) ]

MaxTextLength == 1000

MsgEmpty   == "Text is empty"
MsgTooLong == "Text is too long (>1000 chars)"
MsgNoAlpha == "No alphabetic characters found"

\* /[a-zA-Z]/.test(text)
HasAsciiLetter(text) == \E i \in DOMAIN text : text[i] \in AsciiLetters

\* variants of validateText with one rule changed
validateTextNoEmptyRule(text) ==
  LET issues ==
        (IF Len(text) > MaxTextLength THEN <<MsgTooLong>> ELSE <<>>)
        \o (IF ~HasAsciiLetter(text) THEN <<MsgNoAlpha>> ELSE <<>>)
  IN  [ isValid    |-> Len(issues) = 0,
        issues     |-> issues,
        textLength |-> Len(text) ]

validateTextLimitInclusive(text) ==
  LET issues ==
        (IF Len(text) = 0 THEN <<MsgEmpty>> ELSE <<>>)
        \o (IF Len(text) >= MaxTextLength THEN <<MsgTooLong>> ELSE <<>>)
        \o (IF ~HasAsciiLetter(text) THEN <<MsgNoAlpha>> ELSE <<>>)
  IN  [ isValid    |-> Len(issues) = 0,
        issues     |-> issues,
        textLength |-> Len(text) ]

validateTextValidWhenNonEmpty(text) ==
  LET issues ==
        (IF Len(text) = 0 THEN <<MsgEmpty>> ELSE <<>>)
        \o (IF Len(text) > MaxTextLength THEN <<MsgTooLong>> ELSE <<>>)
        \o (IF ~HasAsciiLetter(text) THEN <<MsgNoAlpha>> ELSE <<>>)
  IN  [ isValid    |-> Len(text) > 0,
        issues     |-> issues,
        textLength |-> Len(text) ]

validateText(text) ==
  LET issues ==
        (IF Len(text) = 0 THEN <<MsgEmpty>> ELSE <<>>)
        \o (IF Len(text) > MaxTextLength THEN <<MsgTooLong>> ELSE <<>>)
        \o (IF ~HasAsciiLetter(text) THEN <<MsgNoAlpha>> ELSE <<>>)
  IN  [ isValid    |-> Len(issues) = 0,
        issues     |-> issues,
        textLength |-> Len(text) ]

\* JSON.stringify(value): the value under the tag "json" (the encoding is
\* injective on the results above; its text is not spelled out).
JSONstringify(v) == <<"json", v>>

(***************************************************************************)
(* entrypoint.sh: the shell tools the case statement pipes the message     *)
(* through.  A stream is the sequence of characters written to a pipe.     *)
(***************************************************************************)
\* bash's builtin echo takes a first argument of the form -[neE]+ as
\* options, not as text.
EchoOptionChars == {"n", "e", "E"}
IsEchoOption(arg) ==
  /\ Len(arg) >= 2
  /\ arg[1] = "-"
  /\ \A i \in 2..Len(arg) : arg[i] \in EchoOptionChars

\* echo "$arg": the argument and a newline; an option argument prints
\* nothing, and -n also suppresses the newline.
BashEcho(arg) ==
  IF IsEchoOption(arg)
  THEN (IF \E i \in 2..Len(arg) : arg[i] = "n" THEN <<>> ELSE <<"\n">>)
  ELSE arg \o <<"\n">>

\* $(...): the output of the command with all trailing newlines removed
CommandSubst(out) == Slice(out, 1, LastNot(out, {"\n"}))

\* rev: every line reversed, the lines and their terminators kept in place
Rev(in) ==
  LET lines == SplitEach(in, {"\n"})
  IN  Join([i \in 1..Len(lines) |-> Reverse(lines[i])], <<"\n">>)

\* wc -w: the number of maximal runs of non-blank characters
WcWords(in) == Len(SelectSeq(SplitEach(in, WhiteSpace), NonEmpty))

\* tr '[:lower:]' '[:upper:]' and back: tr maps single bytes, so only the
\* ASCII letters change.
TrUpper(in) == [i \in 1..Len(in) |-> AsciiToUpper(in[i])]
TrLower(in) == [i \in 1..Len(in) |-> AsciiToLower(in[i])]

\* the decimal digits of a natural number, as shell arithmetic prints it
DigitChars == <<"0", "1", "2", "3", "4", "5", "6", "7", "8", "9">>
RECURSIVE Decimal(_)
Decimal(n) ==
  IF n < 10 THEN <<DigitChars[n + 1]>>
  ELSE Decimal(n \div 10) \o <<DigitChars[(n % 10) + 1]>>

\* "Characters: $CHAR_COUNT, Words: $WORD_COUNT"
StrCharacters == <<"C","h","a","r","a","c","t","e","r","s",":"," ">>
StrWords      == <<","," ","W","o","r","d","s",":"," ">>
FormatCount(chars, words) ==
  StrCharacters \o Decimal(chars) \o StrWords \o Decimal(words)

(***************************************************************************)
(* Operation names and the inputs the runs are started with.               *)
(***************************************************************************)
OpAnalyze   == <<"a","n","a","l","y","z","e">>
OpTransform == <<"t","r","a","n","s","f","o","r","m">>
OpValidate  == <<"v","a","l","i","d","a","t","e">>
OpEcho      == <<"e","c","h","o">>
OpReverse   == <<"r","e","v","e","r","s","e">>
OpCount     == <<"c","o","u","n","t">>
OpUppercase == <<"u","p","p","e","r","c","a","s","e">>
OpLowercase == <<"l","o","w","e","r","c","a","s","e">>
OpNoSuch    == <<"n","o","-","s","u","c","h","-","o","p">>

\* the case labels of the switch in run() and of the case in entrypoint.sh
JsKnownOps     == {OpAnalyze, OpTransform, OpValidate}
DockerKnownOps == {OpEcho, OpReverse, OpCount, OpUppercase, OpLowercase}

\* texts: every text of at most MaxLen characters, some longer examples
\* (several words, repeated and padded blanks, the examples of the
\* documentation), and texts around the length limit of validateText
ShortTexts == UNION {[1..n -> Chars] : n \in 0..MaxLen}
SampleTexts ==
  { <<"e", " ", "E">>, <<"e", " ", " ", "e">>, <<" ", "e", " ">>,
    <<"e", "\n", "E", "\n">>, <<"-", "e", "E">>, <<"-", "e", " ", "e">>,
    <<"-", "e", "\n">>,
    <<"1", "2", "3", "4", "5">>, <<"e", "\t", "e">>,
    <<"H","e","l","l","o"," ","w","o","r","l","d">>,
    <<"g","o"," ","A","c","t","i","o","n","s"," ","g","o">>,
    <<"T","h","e"," ","q","u","i","c","k"," ","q","u","i","c","k"," ","f","o","x">> }
LongTexts  == { Repeat("e", MaxTextLength), Repeat("e", MaxTextLength + 1),
                Repeat("1", MaxTextLength + 1),
                Repeat("emoji", (MaxTextLength \div 2) + 1) }
Texts == ShortTexts \cup SampleTexts \cup LongTexts

\* operation names as a caller may write them: the known names, their
\* upper-case and capitalised spellings, an unknown name, and the empty
\* name; for index.js also a name with blanks around it and a blank name
Spellings(ops) == ops \cup {TrUpper(o) : o \in ops}
PaddedOp       == <<" ">> \o CapitalizeWord(OpTransform) \o <<" ">>
JsOpInputs     == Spellings(JsKnownOps)
                    \cup {CapitalizeWord(OpValidate), OpNoSuch, OpEcho, <<>>,
                          PaddedOp, <<" ">>}
DockerOpInputs == Spellings(DockerKnownOps)
                    \cup {CapitalizeWord(OpReverse), OpNoSuch, <<>>}

\* the environment of the JavaScript action: INPUT_* variables, each one
\* set or unset
EnvInputText     == "INPUT_INPUT-TEXT"
EnvOperationType == "INPUT_OPERATION-TYPE"
Unset == [n \in {} |-> <<>>]
JsEnvs == { tb @@ ob :
              tb \in {Unset} \cup {EnvInputText :> t : t \in Texts},
              ob \in {Unset} \cup {EnvOperationType :> o : o \in JsOpInputs} }

\* the positional arguments of entrypoint.sh: message, process type and
\* colour flag, any suffix of them left out (the colour flag is varied
\* for the messages of at most one character)
ColorArgs == {"true", "false", "TRUE", ""}
ColorTexts == {t \in ShortTexts : Len(t) <= 1}
DockerArgvs == { <<>> }
                 \cup { <<t>> : t \in Texts }
                 \cup { <<t, o>> : t \in Texts, o \in DockerOpInputs }
                 \cup { <<t, o, c>> : t \in ColorTexts, o \in DockerOpInputs,
                                      c \in ColorArgs }

Clock == 0..MaxClock

(***************************************************************************)
(* State.                                                                  *)
(***************************************************************************)
VARIABLES
  host,            \* "none", "js" (index.js) or "docker" (entrypoint.sh)
  pc,              \* position of the run
  now,             \* the clock value read when the timestamp was taken
  env,             \* index.js: the INPUT_* environment
  inputText,       \* index.js: const inputText
  operationType,   \* index.js: const operationType
  result,          \* index.js: let result
  metadata,        \* index.js: let metadata
  outputs,         \* index.js: the core.setOutput calls, in order
  log,             \* index.js: core.info/debug/notice/warning/error events
  failures,        \* index.js: the core.setFailed calls
  error,           \* index.js: the exception caught by run()
  argv,            \* entrypoint.sh: "$@"
  MESSAGE,         \* entrypoint.sh
  PROCESS_TYPE,    \* entrypoint.sh
  COLOR_OUTPUT,    \* entrypoint.sh
  RESULT,          \* entrypoint.sh
  GITHUB_OUTPUT,   \* entrypoint.sh: the variable as read when outputs are set
  outputFile,      \* entrypoint.sh: the lines appended to $GITHUB_OUTPUT
  stdout,          \* entrypoint.sh: the lines printed
  exitStatus,      \* process exit status (-1 while running)
  earlier          \* history: an earlier call of the dispatcher and its result

jsVars     == <<env, inputText, operationType, result, metadata, outputs, log,
                failures, error>>
dockerVars == <<argv, MESSAGE, PROCESS_TYPE, COLOR_OUTPUT, RESULT,
                GITHUB_OUTPUT, outputFile, stdout>>
vars == <<host, pc, now, jsVars, dockerVars, exitStatus, earlier>>

NoResult == [type |-> "none"]
NoError  == "none"
NotRead  == "<not read>"
NoCall   == [host |-> "none"]

Init ==
  /\ host = "none"
  /\ pc = "idle"
  /\ now = 0
  /\ env = Unset
  /\ inputText = <<>>
  /\ operationType = <<>>
  /\ result = NoResult
  /\ metadata = NoResult
  /\ outputs = <<>>
  /\ log = <<>>
  /\ failures = <<>>
  /\ error = NoError
  /\ argv = <<>>
  /\ MESSAGE = <<>>
  /\ PROCESS_TYPE = <<>>
  /\ COLOR_OUTPUT = ""
  /\ RESULT = <<>>
  /\ GITHUB_OUTPUT = NotRead
  /\ outputFile = <<>>
  /\ stdout = <<>>
  /\ exitStatus = -1
  /\ earlier = NoCall

(***************************************************************************)
(* The clock.  Instant t is t seconds after 2026-01-01T00:00:00 UTC; the   *)
(* date and time of day in UTC are printed as YYYY-MM-DDTHH:MM:SS.         *)
(***************************************************************************)
TwoDigits(n) == <<DigitChars[(n \div 10) + 1], DigitChars[(n % 10) + 1]>>
DateTime(t) ==
  <<"2","0","2","6","-","0","1","-","0","1","T">>
    \o TwoDigits(t \div 3600) \o <<":">> \o TwoDigits((t \div 60) % 60)
    \o <<":">> \o TwoDigits(t % 60)

(***************************************************************************)
(* index.js: run()                                                         *)
(***************************************************************************)
Event(level, msg) == [level |-> level, msg |-> msg]

\* getInput that does not enforce required
getInputNotRequired(e, name, required) ==
  LET val == IF name \in DOMAIN e THEN JsString(e[name]) ELSE <<>>
  IN  [ throws |-> FALSE,
        value  |-> Trim(val) ]

\* core.getInput(name, {required}): the variable's value or '', an error
\* when a required value is empty, otherwise the value trimmed
getInput(e, name, required) ==
  LET val == IF name \in DOMAIN e THEN JsString(e[name]) ELSE <<>>
  IN  [ throws |-> required /\ val = <<>>,
        value  |-> Trim(val) ]

\* new Date().toISOString(): YYYY-MM-DDTHH:mm:ss.sssZ
toISOString(t) == DateTime(t) \o <<".", "0", "0", "0", "Z">>

\* { type: ..., ...result }
WithType(type, res) == [type |-> type] @@ res

UnknownOperationWarning == "Unknown operation type. Defaulting to 'analyze'."

JsStart ==
  /\ pc = "idle"
  /\ host' = "js"
  /\ \E e \in JsEnvs : env' = e
  /\ log' = <<Event("info", "What's happening?")>>
  /\ pc' = "js_read_inputs"
  /\ UNCHANGED <<earlier, now, inputText, operationType, result, metadata, outputs,
                 failures, error, dockerVars, exitStatus>>

JsReadInputs ==
  /\ pc = "js_read_inputs"
  /\ LET text == getInput(env, EnvInputText, TRUE)
         op   == getInput(env, EnvOperationType, FALSE)
     IN  IF text.throws
         THEN /\ error' = "Input required and not supplied: input-text"
              /\ pc' = "js_catch"
              /\ UNCHANGED <<inputText, operationType, log>>
         ELSE /\ inputText' = text.value
              /\ operationType' = IF op.value = <<>> THEN OpAnalyze ELSE op.value
              /\ log' = Append(log, Event("info", "Inputs received"))
              /\ pc' = "js_context"
              /\ error' = error
  /\ UNCHANGED <<earlier, host, now, env, result, metadata, outputs, failures,
                 dockerVars, exitStatus>>

\* github.context: context.repo and context.sha.substring throw when the
\* runner did not provide GITHUB_REPOSITORY / GITHUB_SHA
JsContext ==
  /\ pc = "js_context"
  /\ \/ /\ log' = log \o <<Event("info", "GitHub Context Information"),
                           Event("debug", "Full context payload"),
                           Event("info", "Performing text analysis...")>>
        /\ pc' = "js_switch"
        /\ error' = error
     \/ /\ error' = "context is not available"
        /\ pc' = "js_catch"
        /\ log' = log
  /\ UNCHANGED <<earlier, host, now, env, inputText, operationType, result, metadata,
                 outputs, failures, dockerVars, exitStatus>>

\* the switch without the warning in its default branch
SwitchOperationSilentDefault(opType, text) ==
  LET op == toLowerCase(opType)
  IN  CASE op = OpAnalyze ->
             [ result   |-> analyzeText(text),
               events   |-> <<Event("info", "Analysis Results")>>,
               metadata |-> WithType("analysis", analyzeText(text)) ]
        [] op = OpTransform ->
             [ result   |-> transformText(text),
               events   |-> <<Event("info", "Transformation Results")>>,
               metadata |-> WithType("transformation", transformText(text)) ]
        [] op = OpValidate ->
             [ result   |-> validateText(text),
               events   |-> <<Event("info", "Validation Results")>>,
               metadata |-> WithType("validation", validateText(text)) ]
        [] OTHER ->
             [ result   |-> analyzeText(text),
               events   |-> <<>>,
               metadata |-> WithType("analysis", analyzeText(text)) ]

\* the switch on operationType itself, without toLowerCase()
SwitchOperationCaseSensitive(opType, text) ==
  LET op == opType
  IN  CASE op = OpAnalyze ->
             [ result   |-> analyzeText(text),
               events   |-> <<Event("info", "Analysis Results")>>,
               metadata |-> WithType("analysis", analyzeText(text)) ]
        [] op = OpTransform ->
             [ result   |-> transformText(text),
               events   |-> <<Event("info", "Transformation Results")>>,
               metadata |-> WithType("transformation", transformText(text)) ]
        [] op = OpValidate ->
             [ result   |-> validateText(text),
               events   |-> <<Event("info", "Validation Results")>>,
               metadata |-> WithType("validation", validateText(text)) ]
        [] OTHER ->
             [ result   |-> analyzeText(text),
               events   |-> <<Event("warning", UnknownOperationWarning)>>,
               metadata |-> WithType("analysis", analyzeText(text)) ]

\* switch (operationType.toLowerCase()): the result, the metadata and the
\* events logged by the branch taken
SwitchOperation(opType, text) ==
  LET op == toLowerCase(opType)
  IN  CASE op = OpAnalyze ->
             [ result   |-> analyzeText(text),
               events   |-> <<Event("info", "Analysis Results")>>,
               metadata |-> WithType("analysis", analyzeText(text)) ]
        [] op = OpTransform ->
             [ result   |-> transformText(text),
               events   |-> <<Event("info", "Transformation Results")>>,
               metadata |-> WithType("transformation", transformText(text)) ]
        [] op = OpValidate ->
             [ result   |-> validateText(text),
               events   |-> <<Event("info", "Validation Results")>>,
               metadata |-> WithType("validation", validateText(text)) ]
        [] OTHER ->
             [ result   |-> analyzeText(text),
               events   |-> <<Event("warning", UnknownOperationWarning)>>,
               metadata |-> WithType("analysis", analyzeText(text)) ]

\* the switch working on a buffer that an earlier call has left behind
JsSwitchSharedBuffer ==
  /\ pc = "js_switch"
  /\ LET kept   == IF earlier.host = "js" THEN earlier.text ELSE <<>>
         branch == SwitchOperation(operationType, kept \o inputText)
     IN  /\ result' = branch.result
         /\ metadata' = branch.metadata
         /\ log' = log \o branch.events
  /\ pc' = "js_set_outputs"
  /\ UNCHANGED <<earlier, host, now, env, inputText, operationType, outputs, failures,
                 error, dockerVars, exitStatus>>

JsSwitch ==
  /\ pc = "js_switch"
  /\ LET branch == SwitchOperation(operationType, inputText)
     IN  /\ result' = branch.result
         /\ metadata' = branch.metadata
         /\ log' = log \o branch.events
  /\ pc' = "js_set_outputs"
  /\ UNCHANGED <<earlier, host, now, env, inputText, operationType, outputs, failures,
                 error, dockerVars, exitStatus>>

Output(name, value) == [name |-> name, value |-> value]

\* the outputs with the operation name lower-cased, as the switch sees it
JsSetOutputsLowerCased(t) ==
  /\ pc = "js_set_outputs"
  /\ now' = t
  /\ outputs' = outputs \o
                  << Output("processed-text", JSONstringify(result)),
                     Output("operation-type", toLowerCase(operationType)),
                     Output("timestamp", toISOString(t)),
                     Output("metadata", JSONstringify(metadata)) >>
  /\ log' = Append(log, Event("info", "Outputs set"))
  /\ pc' = "js_logging"
  /\ UNCHANGED <<earlier, host, env, inputText, operationType, result, metadata,
                 failures, error, dockerVars, exitStatus>>

JsSetOutputs(t) ==
  /\ pc = "js_set_outputs"
  /\ now' = t
  /\ outputs' = outputs \o
                  << Output("processed-text", JSONstringify(result)),
                     Output("operation-type", operationType),
                     Output("timestamp", toISOString(t)),
                     Output("metadata", JSONstringify(metadata)) >>
  /\ log' = Append(log, Event("info", "Outputs set"))
  /\ pc' = "js_logging"
  /\ UNCHANGED <<earlier, host, env, inputText, operationType, result, metadata,
                 failures, error, dockerVars, exitStatus>>

\* the logging demonstration without its core.warning call
JsLoggingWithoutWarning ==
  /\ pc = "js_logging"
  /\ log' = log \o << Event("debug", "This is a debug message"),
                      Event("info", "This is an info message"),
                      Event("notice", "This is a notice"),
                      Event("info", "JavaScript Action Complete!") >>
  /\ exitStatus' = 0
  /\ pc' = "done"
  /\ UNCHANGED <<earlier, host, now, env, inputText, operationType, result, metadata,
                 outputs, failures, error, dockerVars>>

JsLogging ==
  /\ pc = "js_logging"
  /\ log' = log \o << Event("debug", "This is a debug message"),
                      Event("info", "This is an info message"),
                      Event("notice", "This is a notice"),
                      Event("warning", "This is a warning"),
                      Event("info", "JavaScript Action Complete!") >>
  /\ exitStatus' = 0
  /\ pc' = "done"
  /\ UNCHANGED <<earlier, host, now, env, inputText, operationType, result, metadata,
                 outputs, failures, error, dockerVars>>

\* a catch that logs the error but does not call core.setFailed
JsCatchWithoutSetFailed ==
  /\ pc = "js_catch"
  /\ log' = log \o << Event("error", "Action failed with error"),
                      Event("debug", "Stack trace") >>
  /\ exitStatus' = 0
  /\ pc' = "done"
  /\ UNCHANGED <<earlier, host, now, env, inputText, operationType, result, metadata,
                 outputs, failures, error, dockerVars>>

\* catch (error): core.setFailed logs the message as an error and sets the
\* exit code to 1
JsCatch ==
  /\ pc = "js_catch"
  /\ failures' = Append(failures, error)
  /\ log' = log \o << Event("error", "Action failed with error"),
                      Event("debug", "Stack trace") >>
  /\ exitStatus' = 1
  /\ pc' = "done"
  /\ UNCHANGED <<earlier, host, now, env, inputText, operationType, result, metadata,
                 outputs, error, dockerVars>>

(***************************************************************************)
(* entrypoint.sh                                                           *)
(***************************************************************************)
\* "${i-default}": the default only when the argument is unset
ParamUnsetOnly(a, i, empty, default) ==
  IF Len(a) >= i THEN a[i] ELSE default

\* "${i:-default}": the i-th argument, or the default when it is unset or
\* empty
Param(a, i, empty, default) ==
  IF Len(a) >= i /\ a[i] # empty THEN a[i] ELSE default

\* a line on standard output; color is the ANSI code wrapped around it
Line(color, msg) == [color |-> color, msg |-> msg]
echo(msg) == Line("none", msg)
\* print_colored taking every value but "false" as a request for colours
print_coloredUnlessFalse(colorOutput, color, msg) ==
  IF colorOutput # "false" THEN Line(color, msg) ELSE Line("none", msg)

print_colored(colorOutput, color, msg) ==
  IF colorOutput = "true" THEN Line(color, msg) ELSE Line("none", msg)

\* date -u +"%Y-%m-%d %H:%M:%S"
DateUtcPlain(t) ==
  [i \in 1..Len(DateTime(t)) |-> IF i = 11 THEN " " ELSE DateTime(t)[i]]

\* date -u +"%Y-%m-%dT%H:%M:%SZ"
DateUtc(t) == DateTime(t) \o <<"Z">>

\* the here-document: a JSON object spread over six lines
ContainerInfo(processType) ==
  <<"{", "\n", "  \"os\": ...,", "\n", "  \"shell\": ...,", "\n",
    "  \"process_type\": \"">> \o processType \o <<"\",", "\n",
    "  \"pwd\": ...", "\n", "}">>

StrResultEq        == <<"r","e","s","u","l","t","=">>
StrTimestampEq     == <<"t","i","m","e","s","t","a","m","p","=">>
StrContainerInfoEq == <<"c","o","n","t","a","i","n","e","r","-","i","n","f","o","=">>

\* echo "text" >> file: the lines the file grows by
AppendedLines(text) ==
  LET out == BashEcho(text)
  IN  SplitEach(Slice(out, 1, Len(out) - 1), {"\n"})

UnknownProcessTypeWarning == "Unknown process type, defaulting to echo"

DockerStart ==
  /\ pc = "idle"
  /\ host' = "docker"
  /\ \E a \in DockerArgvs : argv' = a
  /\ MESSAGE' = Param(argv', 1, <<>>, <<>>)
  /\ PROCESS_TYPE' = Param(argv', 2, <<>>, OpEcho)
  /\ COLOR_OUTPUT' = Param(argv', 3, "", "true")
  /\ pc' = "dk_validate"
  /\ UNCHANGED <<earlier, now, jsVars, RESULT, GITHUB_OUTPUT, outputFile, stdout,
                 exitStatus>>

DockerValidate ==
  /\ pc = "dk_validate"
  /\ IF MESSAGE = <<>>
     THEN /\ stdout' = Append(stdout, echo("::error::MESSAGE argument is required"))
          /\ exitStatus' = 1
          /\ pc' = "done"
     ELSE /\ stdout' = stdout \o
                 << print_colored(COLOR_OUTPUT, "CYAN BOLD", "What's happening?"),
                    print_colored(COLOR_OUTPUT, "CYAN BOLD", "Container Environment Information:"),
                    print_colored(COLOR_OUTPUT, "CYAN BOLD", "Inputs Received:"),
                    print_colored(COLOR_OUTPUT, "CYAN BOLD", "Processing Message...") >>
          /\ exitStatus' = exitStatus
          /\ pc' = "dk_process"
  /\ UNCHANGED <<earlier, host, now, jsVars, argv, MESSAGE, PROCESS_TYPE, COLOR_OUTPUT,
                 RESULT, GITHUB_OUTPUT, outputFile>>

\* case "$PROCESS_TYPE" in ... esac: RESULT and the line printed by the
\* branch taken
CaseProcessType(processType, message, colorOutput) ==
  CASE processType = OpEcho ->
         [ RESULT |-> message,
           line   |-> print_colored(colorOutput, "GREEN", "Echo mode") ]
    [] processType = OpReverse ->
         [ RESULT |-> CommandSubst(Rev(BashEcho(message))),
           line   |-> print_colored(colorOutput, "GREEN", "Reverse mode") ]
    [] processType = OpCount ->
         [ RESULT |-> FormatCount(Len(message), WcWords(BashEcho(message))),
           line   |-> print_colored(colorOutput, "GREEN", "Count mode") ]
    [] processType = OpUppercase ->
         [ RESULT |-> CommandSubst(TrUpper(BashEcho(message))),
           line   |-> print_colored(colorOutput, "GREEN", "Uppercase mode") ]
    [] processType = OpLowercase ->
         [ RESULT |-> CommandSubst(TrLower(BashEcho(message))),
           line   |-> print_colored(colorOutput, "GREEN", "Lowercase mode") ]
    [] OTHER ->
         [ RESULT |-> message,
           line   |-> print_colored(colorOutput, "YELLOW", UnknownProcessTypeWarning) ]

DockerProcess ==
  /\ pc = "dk_process"
  /\ LET branch == CaseProcessType(PROCESS_TYPE, MESSAGE, COLOR_OUTPUT)
     IN  /\ RESULT' = branch.RESULT
         /\ stdout' = Append(stdout, branch.line)
  /\ pc' = "dk_set_outputs"
  /\ UNCHANGED <<earlier, host, now, jsVars, argv, MESSAGE, PROCESS_TYPE, COLOR_OUTPUT,
                 GITHUB_OUTPUT, outputFile, exitStatus>>

\* the values GITHUB_OUTPUT can have: unset, empty, or the path of a file
GithubOutputValues == {"<unset>", "", "/github/file_commands/set_output"}

\* the writes without the test of GITHUB_OUTPUT: the first redirection fails
\* (unbound variable, or no file of that name) and set -e ends the script
DockerSetOutputsUnchecked(t, gho) ==
  /\ pc = "dk_set_outputs"
  /\ now' = t
  /\ GITHUB_OUTPUT' = gho
  /\ LET TIMESTAMP      == DateUtc(t)
         CONTAINER_INFO == ContainerInfo(PROCESS_TYPE)
     IN  IF gho \notin {"<unset>", ""}
         THEN /\ outputFile' = outputFile
                     \o AppendedLines(StrResultEq \o RESULT)
                     \o AppendedLines(StrTimestampEq \o TIMESTAMP)
                     \o AppendedLines(StrContainerInfoEq \o CONTAINER_INFO)
              /\ stdout' = stdout \o
                     << print_colored(COLOR_OUTPUT, "CYAN BOLD", "Setting Outputs:"),
                        print_colored(COLOR_OUTPUT, "GREEN", "result"),
                        print_colored(COLOR_OUTPUT, "GREEN", "timestamp"),
                        print_colored(COLOR_OUTPUT, "GREEN", "container-info"),
                        print_colored(COLOR_OUTPUT, "GREEN BOLD",
                                      "Docker Container Action Complete!") >>
         ELSE /\ outputFile' = outputFile
              /\ stdout' = Append(stdout,
                     print_colored(COLOR_OUTPUT, "CYAN BOLD", "Setting Outputs:"))
  /\ exitStatus' = IF gho \notin {"<unset>", ""} THEN 0 ELSE 1
  /\ pc' = "done"
  /\ UNCHANGED <<earlier, host, jsVars, argv, MESSAGE, PROCESS_TYPE, COLOR_OUTPUT,
                 RESULT>>

\* from "Generate timestamp" to "exit 0"
DockerSetOutputs(t, gho) ==
  /\ pc = "dk_set_outputs"
  /\ now' = t
  /\ GITHUB_OUTPUT' = gho
  /\ LET TIMESTAMP      == DateUtc(t)
         CONTAINER_INFO == ContainerInfo(PROCESS_TYPE)
     IN  IF gho \notin {"<unset>", ""}
         THEN /\ outputFile' = outputFile
                     \o AppendedLines(StrResultEq \o RESULT)
                     \o AppendedLines(StrTimestampEq \o TIMESTAMP)
                     \o AppendedLines(StrContainerInfoEq \o CONTAINER_INFO)
              /\ stdout' = stdout \o
                     << print_colored(COLOR_OUTPUT, "CYAN BOLD", "Setting Outputs:"),
                        print_colored(COLOR_OUTPUT, "GREEN", "result"),
                        print_colored(COLOR_OUTPUT, "GREEN", "timestamp"),
                        print_colored(COLOR_OUTPUT, "GREEN", "container-info"),
                        print_colored(COLOR_OUTPUT, "GREEN BOLD",
                                      "Docker Container Action Complete!") >>
         ELSE /\ outputFile' = outputFile
              /\ stdout' = stdout \o
                     << print_colored(COLOR_OUTPUT, "CYAN BOLD", "Setting Outputs:"),
                        echo("GITHUB_OUTPUT not set (running outside GitHub Actions)"),
                        echo("Outputs would be:"),
                        print_colored(COLOR_OUTPUT, "GREEN BOLD",
                                      "Docker Container Action Complete!") >>
  /\ exitStatus' = 0
  /\ pc' = "done"
  /\ UNCHANGED <<earlier, host, jsVars, argv, MESSAGE, PROCESS_TYPE, COLOR_OUTPUT,
                 RESULT>>

(***************************************************************************)
(* A finished run leaves nothing behind: the next invocation starts from   *)
(* the initial state.                                                      *)
(***************************************************************************)
\* the process ends: none of its variables outlives it
Forget ==
  /\ host' = "none"
  /\ pc' = "idle"
  /\ now' = 0
  /\ env' = Unset
  /\ inputText' = <<>>
  /\ operationType' = <<>>
  /\ result' = NoResult
  /\ metadata' = NoResult
  /\ outputs' = <<>>
  /\ log' = <<>>
  /\ failures' = <<>>
  /\ error' = NoError
  /\ argv' = <<>>
  /\ MESSAGE' = <<>>
  /\ PROCESS_TYPE' = <<>>
  /\ COLOR_OUTPUT' = ""
  /\ RESULT' = <<>>
  /\ GITHUB_OUTPUT' = NotRead
  /\ outputFile' = <<>>
  /\ stdout' = <<>>
  /\ exitStatus' = -1

Reset ==
  /\ pc = "done"
  /\ Forget
  /\ earlier' = earlier

Next ==
  \/ JsStart
  \/ JsReadInputs
  \/ JsContext
  \/ JsSwitch
  \/ \E t \in Clock : JsSetOutputs(t)
  \/ JsLogging
  \/ JsCatch
  \/ DockerStart
  \/ DockerValidate
  \/ DockerProcess
  \/ \E t \in Clock, gho \in GithubOutputValues : DockerSetOutputs(t, gho)
  \/ Reset

Spec == Init /\ [][Next]_vars

(***************************************************************************)
(* The dispatcher on its own.  The switch of run() and the case of         *)
(* entrypoint.sh map a text and an operation name to a result.  Here they  *)
(* are called directly, one call after another, with any text: run() only  *)
(* hands them trimmed texts and entrypoint.sh only non-empty ones.         *)
(* `earlier` is a history variable: it remembers the most recent call made *)
(* with one of the probe arguments, what it returned, and whether other    *)
(* calls have returned since.                                              *)
(***************************************************************************)
MaxBetween == 1   \* calls counted after the remembered one

DispatchTexts == ShortTexts \cup SampleTexts

Probes ==
  { [host |-> "js",     text |-> <<"e", " ", "E">>, op |-> OpAnalyze],
    [host |-> "js",     text |-> <<"e", "\n">>,    op |-> OpTransform],
    [host |-> "docker", text |-> <<"e", " ", "E">>, op |-> OpReverse],
    [host |-> "docker", text |-> <<"-", "e">>,      op |-> OpCount] }

\* the arguments of the call in progress, and what it returned
CallKey ==
  IF host = "js"
  THEN [host |-> "js", text |-> inputText, op |-> operationType]
  ELSE [host |-> "docker", text |-> MESSAGE, op |-> PROCESS_TYPE]
CallResult == IF host = "js" THEN result ELSE RESULT

\* switch (operationType.toLowerCase()) called with a text and a name
JsCall ==
  /\ pc = "idle"
  /\ host' = "js"
  /\ \E t \in DispatchTexts, o \in JsOpInputs :
       /\ inputText' = JsString(t)
       /\ operationType' = o
  /\ pc' = "js_switch"
  /\ UNCHANGED <<earlier, now, env, result, metadata, outputs, log, failures,
                 error, dockerVars, exitStatus>>

\* case "$PROCESS_TYPE" called with a message and a name
DockerCall ==
  /\ pc = "idle"
  /\ host' = "docker"
  /\ \E t \in DispatchTexts, o \in DockerOpInputs, c \in {"true", "false"} :
       /\ MESSAGE' = t
       /\ PROCESS_TYPE' = o
       /\ COLOR_OUTPUT' = c
  /\ pc' = "dk_process"
  /\ UNCHANGED <<earlier, now, jsVars, argv, RESULT, GITHUB_OUTPUT, outputFile,
                 stdout, exitStatus>>

\* the call returns; nothing of it is kept but the history
Return ==
  /\ pc \in {"js_set_outputs", "dk_set_outputs"}
  /\ earlier' =
       IF CallKey \in Probes
       THEN CallKey @@ [result |-> CallResult, between |-> 0]
       ELSE IF earlier = NoCall THEN NoCall
       ELSE [earlier EXCEPT !.between =
                              IF @ < MaxBetween THEN @ + 1 ELSE MaxBetween]
  /\ Forget

DispatchNext ==
  \/ JsCall
  \/ JsSwitch
  \/ DockerCall
  \/ DockerProcess
  \/ Return

DispatchSpec == Init /\ [][DispatchNext]_vars

(***************************************************************************)
(* Vocabulary of the properties.                                           *)
(***************************************************************************)
InLog(ev)       == \E i \in DOMAIN log : log[i] = ev
Printed(msg)    == \E i \in DOMAIN stdout : stdout[i].msg = msg
HasOutput(name) == \E i \in DOMAIN outputs : outputs[i].name = name

\* the switch of run() has been executed / the case of entrypoint.sh has
JsDispatched     == host = "js" /\ pc \in {"js_set_outputs", "js_logging", "done"}
                               /\ metadata.type # "none"
DockerDispatched == host = "docker" /\ (pc = "dk_set_outputs" \/ exitStatus = 0)

\* the run has ended and reported success
JsSucceeded     == host = "js" /\ pc = "done" /\ failures = <<>>
DockerSucceeded == host = "docker" /\ pc = "done" /\ exitStatus = 0

\* the required text was not supplied: unset, or set to the empty string
JsTextMissing        == EnvInputText \notin DOMAIN env \/ env[EnvInputText] = <<>>
DockerMessageMissing == Len(argv) = 0 \/ argv[1] = <<>>
\* the optional operation was not supplied
JsOperationMissing     == EnvOperationType \notin DOMAIN env
                            \/ env[EnvOperationType] = <<>>
DockerOperationMissing == Len(argv) < 2 \/ argv[2] = <<>>

\* what each branch of the two dispatchers prints when it is taken
JsBranchEvent(op) ==
  CASE op = OpAnalyze   -> Event("info", "Analysis Results")
    [] op = OpTransform -> Event("info", "Transformation Results")
    [] op = OpValidate  -> Event("info", "Validation Results")
    [] OTHER            -> Event("warning", UnknownOperationWarning)
JsBranchType(op) ==
  CASE op = OpAnalyze   -> "analysis"
    [] op = OpTransform -> "transformation"
    [] op = OpValidate  -> "validation"
    [] OTHER            -> "none"
DockerModeLine(op) ==
  CASE op = OpEcho      -> "Echo mode"
    [] op = OpReverse   -> "Reverse mode"
    [] op = OpCount     -> "Count mode"
    [] op = OpUppercase -> "Uppercase mode"
    [] op = OpLowercase -> "Lowercase mode"
    [] OTHER            -> UnknownProcessTypeWarning
DockerModeLines == {DockerModeLine(o) : o \in DockerKnownOps}

\* number of maximal runs of non-blank characters
NumWords(t) ==
  Cardinality({i \in 1..Len(t) : ~IsSpace(t[i]) /\ (i = 1 \/ IsSpace(t[i - 1]))})

\* YYYY-MM-DDTHH:MM:SS[.sss]Z
IsDigit(c) == c \in Range(DigitChars)
IsIso8601Utc(ts) ==
  /\ Len(ts) \in {20, 24}
  /\ \A i \in {1, 2, 3, 4, 6, 7, 9, 10, 12, 13, 15, 16, 18, 19} : IsDigit(ts[i])
  /\ ts[5] = "-" /\ ts[8] = "-" /\ ts[11] = "T" /\ ts[14] = ":" /\ ts[17] = ":"
  /\ ts[Len(ts)] = "Z"
  /\ Len(ts) = 24 => ts[20] = "." /\ \A i \in 21..23 : IsDigit(ts[i])

HasPrefix(line, pre) == Len(line) >= Len(pre) /\ Slice(line, 1, Len(pre)) = pre
FileHasEntry(pre)    == \E i \in DOMAIN outputFile : HasPrefix(outputFile[i], pre)

JsOutputRecordComplete ==
  /\ HasOutput("processed-text")
  /\ \E i \in DOMAIN outputs :
       outputs[i].name = "timestamp" /\ IsIso8601Utc(outputs[i].value)
DockerOutputRecordComplete ==
  /\ FileHasEntry(StrResultEq)
  /\ \E i \in DOMAIN outputFile :
       /\ HasPrefix(outputFile[i], StrTimestampEq)
       /\ IsIso8601Utc(Slice(outputFile[i], Len(StrTimestampEq) + 1, Len(outputFile[i])))
GithubOutputUsable == GITHUB_OUTPUT \notin {"<unset>", ""}

(***************************************************************************)
(* Properties.                                                             *)
(***************************************************************************)

\* C1: an operation name outside the known set never makes the dispatch
\* raise; a warning is emitted and the result is the one the fallback
\* operation gives for the same text (analyze in index.js, echo in
\* entrypoint.sh).
C1_UnknownOperationFallsBack ==
  /\ (host = "js" /\ pc \in {"js_set_outputs", "js_logging", "js_catch", "done"}
        /\ error # "context is not available" /\ ~JsTextMissing
        /\ toLowerCase(operationType) \notin JsKnownOps) =>
       /\ pc # "js_catch" /\ failures = <<>> /\ error = NoError
       /\ InLog(Event("warning", UnknownOperationWarning))
       /\ result = SwitchOperation(OpAnalyze, inputText).result
       /\ metadata = SwitchOperation(OpAnalyze, inputText).metadata
  /\ (DockerDispatched /\ PROCESS_TYPE \notin DockerKnownOps) =>
       /\ exitStatus # 1
       /\ Printed(UnknownProcessTypeWarning)
       /\ RESULT = CaseProcessType(OpEcho, MESSAGE, COLOR_OUTPUT).RESULT

C1_Witness ==
  /\ JsSucceeded
  /\ operationType = OpNoSuch
  /\ inputText = <<"e", " ", "E">>
  /\ result.wordCount = 2
  /\ InLog(Event("warning", UnknownOperationWarning))

\* C2: when the required text is absent or empty the run stops before any
\* operation is dispatched, ends in failure (failed status in index.js, exit
\* status 1 in entrypoint.sh) and sets no output.
C2_MissingTextHaltsBeforeDispatch ==
  /\ (host = "js" /\ pc # "js_read_inputs" /\ JsTextMissing) =>
       /\ pc \in {"js_catch", "done"}
       /\ result = NoResult /\ metadata = NoResult
       /\ outputs = <<>>
       /\ \A o \in JsKnownOps \cup {OpNoSuch} : ~InLog(JsBranchEvent(o))
       /\ pc = "done" => (Len(failures) = 1 /\ exitStatus = 1)
  /\ (host = "docker" /\ pc # "dk_validate" /\ DockerMessageMissing) =>
       /\ pc = "done" /\ exitStatus = 1
       /\ outputFile = <<>>
       /\ \A m \in DockerModeLines \cup {UnknownProcessTypeWarning} : ~Printed(m)

C2_Witness ==
  /\ host = "js" /\ pc = "done"
  /\ EnvInputText \notin DOMAIN env
  /\ EnvOperationType \in DOMAIN env /\ env[EnvOperationType] = OpValidate
  /\ Len(failures) = 1 /\ exitStatus = 1 /\ outputs = <<>>

\* C3 (as claimed): in both actions a known operation name written in any
\* letter case executes that operation, never the unknown-operation
\* fallback.
C3_CaseInsensitiveEverywhere ==
  /\ (JsDispatched /\ toLowerCase(operationType) \in JsKnownOps) =>
       /\ InLog(JsBranchEvent(toLowerCase(operationType)))
       /\ ~InLog(Event("warning", UnknownOperationWarning))
  /\ (DockerDispatched /\ TrLower(PROCESS_TYPE) \in DockerKnownOps) =>
       /\ Printed(DockerModeLine(TrLower(PROCESS_TYPE)))
       /\ ~Printed(UnknownProcessTypeWarning)

\* C3 (amended): index.js matches the operation name case-insensitively;
\* entrypoint.sh matches it exactly: only the lower-case names select their
\* operation, any other spelling of them takes the unknown-operation
\* fallback (the message unchanged, with the warning).
C3_CaseInsensitiveInJsExactInDocker ==
  /\ (JsDispatched /\ toLowerCase(operationType) \in JsKnownOps) =>
       /\ InLog(JsBranchEvent(toLowerCase(operationType)))
       /\ ~InLog(Event("warning", UnknownOperationWarning))
       /\ metadata.type = JsBranchType(toLowerCase(operationType))
       /\ result = SwitchOperation(toLowerCase(operationType), inputText).result
  /\ (DockerDispatched /\ PROCESS_TYPE \in DockerKnownOps) =>
       /\ Printed(DockerModeLine(PROCESS_TYPE))
       /\ ~Printed(UnknownProcessTypeWarning)
  /\ (DockerDispatched /\ PROCESS_TYPE \notin DockerKnownOps
        /\ TrLower(PROCESS_TYPE) \in DockerKnownOps) =>
       /\ Printed(UnknownProcessTypeWarning)
       /\ \A m \in DockerModeLines : ~Printed(m)
       /\ RESULT = MESSAGE

C3_Witness ==
  /\ JsSucceeded
  /\ operationType = TrUpper(OpValidate)
  /\ inputText = <<"e">>
  /\ metadata.type = "validation"
  /\ result.isValid

\* C4 (as claimed): when the operation is not supplied, the operation that
\* is executed is echo.
C4_DefaultIsEcho ==
  /\ (host = "js" /\ pc \notin {"js_read_inputs", "js_catch"} /\ failures = <<>>
        /\ JsOperationMissing) => operationType = OpEcho
  /\ (host = "docker" /\ DockerOperationMissing) => PROCESS_TYPE = OpEcho

\* C4 (amended): when the operation is not supplied, entrypoint.sh executes
\* echo and index.js executes analyze.
C4_DefaultIsEchoInDockerAnalyzeInJs ==
  /\ (host = "js" /\ pc \notin {"js_read_inputs", "js_catch"} /\ failures = <<>>
        /\ JsOperationMissing) =>
       /\ operationType = OpAnalyze
       /\ JsDispatched =>
            /\ InLog(Event("info", "Analysis Results"))
            /\ ~InLog(Event("warning", UnknownOperationWarning))
            /\ result = analyzeText(inputText)
  /\ (host = "docker" /\ DockerOperationMissing) =>
       /\ PROCESS_TYPE = OpEcho
       /\ DockerDispatched =>
            /\ Printed("Echo mode")
            /\ ~Printed(UnknownProcessTypeWarning)
            /\ RESULT = MESSAGE

C4_Witness ==
  /\ DockerSucceeded
  /\ argv = << <<"e", " ", "E">>, <<>> >>
  /\ RESULT = <<"e", " ", "E">>
  /\ Printed("Echo mode")

\* C5 (as claimed): every run that ends successfully leaves an output
\* record with a timestamp entry in ISO-8601 UTC form and the result entry
\* (result in entrypoint.sh, processed-text in index.js).
C5_SuccessHasTimestampAndResult ==
  /\ JsSucceeded => JsOutputRecordComplete
  /\ DockerSucceeded => DockerOutputRecordComplete

\* C5 (amended): every successful run of index.js, and every successful run
\* of entrypoint.sh that found GITHUB_OUTPUT set and non-empty, leaves an
\* output record with a timestamp entry in ISO-8601 UTC form and the result
\* entry; a run of entrypoint.sh with GITHUB_OUTPUT unset or empty succeeds
\* without an output record.
C5_SuccessHasTimestampAndResultWhenFileGiven ==
  /\ JsSucceeded => JsOutputRecordComplete
  /\ (DockerSucceeded /\ GithubOutputUsable) => DockerOutputRecordComplete
  /\ (DockerSucceeded /\ ~GithubOutputUsable) => outputFile = <<>>

C5_Witness ==
  /\ DockerSucceeded
  /\ GithubOutputUsable
  /\ PROCESS_TYPE = OpReverse
  /\ MESSAGE = <<"e", " ", "E">>
  /\ DockerOutputRecordComplete
  /\ now = 1

\* index.js has executed the validate / analyze branch of the switch
JsValidated == JsDispatched /\ metadata.type = "validation"
JsAnalyzed  == JsDispatched /\ metadata.type = "analysis"
Issues      == Range(result.issues)

\* C6 (as claimed): validate on the empty text returns isValid = false and
\* an issues list that contains "empty".
C6_EmptyTextReportsEmptyCode ==
  (JsValidated /\ inputText = <<>>) =>
     /\ result.isValid = FALSE
     /\ "empty" \in Issues

\* C6 (amended): validate on the empty text returns isValid = false and an
\* issues list that contains the message "Text is empty".
C6_EmptyTextReportsTextIsEmpty ==
  (JsValidated /\ inputText = <<>>) =>
     /\ result.isValid = FALSE
     /\ MsgEmpty \in Issues

C6_Witness ==
  /\ JsSucceeded /\ JsValidated
  /\ env[EnvInputText] = <<" ", "\n">>
  /\ inputText = <<>>
  /\ result.textLength = 0
  /\ result.issues = <<MsgEmpty, MsgNoAlpha>>

\* C7 (as claimed): validate reports "too-long" exactly when the text is
\* longer than 1000; a text of length 1001 is invalid.
C7_TooLongCodeIffOver1000 ==
  JsValidated =>
     /\ ("too-long" \in Issues) <=> (Len(inputText) > MaxTextLength)
     /\ Len(inputText) = MaxTextLength + 1 => result.isValid = FALSE

\* C7 (amended): validate reports the message "Text is too long (>1000
\* chars)" exactly when the length of the text (in UTF-16 code units) is
\* greater than 1000; a text of length 1001 is invalid with that message,
\* a text of length 1000 or less never has it.
C7_TooLongMessageIffOver1000 ==
  JsValidated =>
     /\ (MsgTooLong \in Issues) <=> (Len(inputText) > MaxTextLength)
     /\ Len(inputText) = MaxTextLength + 1 => result.isValid = FALSE

C7_Witness ==
  /\ JsSucceeded /\ JsValidated
  /\ inputText = Repeat("e", MaxTextLength + 1)
  /\ result.issues = <<MsgTooLong>>
  /\ result.isValid = FALSE

C7_WitnessAtLimit ==
  /\ JsSucceeded /\ JsValidated
  /\ inputText = Repeat("e", MaxTextLength)
  /\ result.isValid

\* C8: validate reports that the text has no alphabetic character exactly
\* when the text contains no letter, ASCII or not (the issue is identified
\* here by the message index.js gives it).
HasLetter(text) == \E i \in DOMAIN text : text[i] \in Alphabetic
C8_NoAlphaIffNoLetter ==
  JsValidated =>
     /\ (MsgNoAlpha \in Issues) <=> ~HasLetter(inputText)
     /\ ~HasLetter(inputText) => result.isValid = FALSE

\* C9: the validate result has isValid = true if and only if its issues
\* list is empty.
C9_ValidIffNoIssues ==
  JsValidated => (result.isValid <=> result.issues = <<>>)

C9_Witness ==
  /\ JsSucceeded /\ JsValidated
  /\ inputText = <<"E", "e">>
  /\ result.isValid
  /\ result.issues = <<>>

C9_WitnessInvalid ==
  /\ JsSucceeded /\ JsValidated
  /\ inputText = <<"1", "2", "3", "4", "5">>
  /\ ~result.isValid
  /\ result.issues = <<MsgNoAlpha>>

\* C10: count gives a character count equal to the length of the text and
\* a word count equal to the number of maximal runs of non-blank characters
\* (the analyze branch of index.js, the count branch of entrypoint.sh).
C10_CountsCharsAndWords ==
  /\ JsAnalyzed =>
       /\ result.charCount = Len(inputText)
       /\ result.wordCount = NumWords(inputText)
  /\ (DockerDispatched /\ PROCESS_TYPE = OpCount) =>
       RESULT = FormatCount(Len(MESSAGE), NumWords(MESSAGE))

\* the part of C10 that index.js satisfies
C10_JsCountsUnitsAndWords ==
  JsAnalyzed =>
     /\ result.charCount = Len(inputText)
     /\ result.wordCount = NumWords(inputText)

\* words: the maximal runs of non-blank characters of a text
WordStarts(t) ==
  {i \in 1..Len(t) : ~IsSpace(t[i]) /\ (i = 1 \/ IsSpace(t[i - 1]))}
WordEnds(t) ==
  {j \in 1..Len(t) : ~IsSpace(t[j]) /\ (j = Len(t) \/ IsSpace(t[j + 1]))}
WordAt(t, i) ==
  Slice(t, i, CHOOSE j \in WordEnds(t) :
                j >= i /\ \A k \in WordEnds(t) : k >= i => j <= k)
WordsOf(t) == {WordAt(t, i) : i \in WordStarts(t)}

\* two words that differ at most in the case of their letters
CasePairs ==
  {{LowerLetters[k], UpperLetters[k]} : k \in DOMAIN LowerLetters}
    \cup {{"e_acute", "E_ACUTE"}}
SameIgnoringCase(v, w) ==
  /\ Len(v) = Len(w)
  /\ \A i \in 1..Len(v) : v[i] = w[i] \/ {v[i], w[i]} \in CasePairs
\* the words of a text, those that differ only in case taken together
WordClasses(t) ==
  {{v \in WordsOf(t) : SameIgnoringCase(v, w)} : w \in WordsOf(t)}

\* C11: analyze's uniqueWords is the number of distinct words of the text
\* after case folding: words that differ only in letter case count once,
\* and uniqueWords never exceeds wordCount.
C11_UniqueWordsIgnoreCase ==
  JsAnalyzed =>
     /\ result.uniqueWords = Cardinality(WordClasses(inputText))
     /\ result.uniqueWords <= result.wordCount

C11_Witness ==
  /\ JsAnalyzed
  /\ inputText = <<"e", " ", "E">>
  /\ result.wordCount = 2
  /\ result.uniqueWords = 1

C11_WitnessQuickFox ==
  /\ JsAnalyzed
  /\ inputText = <<"T","h","e"," ","q","u","i","c","k"," ",
                   "q","u","i","c","k"," ","f","o","x">>
  /\ result.wordCount = 4
  /\ result.uniqueWords = 3

\* C12: analyze's line count is the number of newline-delimited segments
\* of the text, one more than its number of newline characters: 1 for the
\* empty text, and a trailing newline adds an empty segment.
NewlineCount(t) == Cardinality({i \in 1..Len(t) : t[i] = "\n"})
C12_LineCountIsSegments ==
  JsAnalyzed => result.lineCount = NewlineCount(inputText) + 1

C12_Witness ==
  /\ JsAnalyzed
  /\ inputText = <<"e", "\n">>
  /\ result.lineCount = 2

C12_WitnessEmpty ==
  /\ JsAnalyzed
  /\ inputText = <<>>
  /\ result.lineCount = 1

\* index.js has executed the transform branch of the switch
JsTransformed == JsDispatched /\ metadata.type = "transformation"

\* a text with the first character of every token upper-cased and the other
\* characters lower-cased, the tokens being delimited by the characters of
\* seps; the separators stay where they are
TitleCase(t, seps) ==
  [i \in 1..Len(t) |-> IF i = 1 \/ t[i - 1] \in seps
                       THEN JsUpperUnit(t[i])
                       ELSE JsLowerUnit(t[i])]

\* C13: transform's capitalized variant is the text with every token
\* delimited by white space (space, tab or newline) rewritten with its
\* first letter upper-cased and the rest lower-cased, all separators kept.
C13_CapitalizedPerWhitespaceToken ==
  JsTransformed => result.capitalized = TitleCase(inputText, WhiteSpace)

\* what index.js does instead: only the space delimits tokens
C13_CapitalizedPerSpaceToken ==
  JsTransformed => result.capitalized = TitleCase(inputText, {" "})

\* C14: for every non-empty text, reverse applied to the output of reverse
\* on that text gives back the text (the reversed variant of transform in
\* index.js, the reverse branch of entrypoint.sh).
C14_ReverseIsInvolution ==
  /\ (JsTransformed /\ inputText # <<>>) =>
       transformText(result.reversed).reversed = inputText
  /\ (DockerDispatched /\ PROCESS_TYPE = OpReverse /\ MESSAGE # <<>>) =>
       CaseProcessType(OpReverse, RESULT, COLOR_OUTPUT).RESULT = MESSAGE

\* the part of C14 that index.js satisfies
C14_JsReverseIsInvolution ==
  (JsTransformed /\ inputText # <<>>) =>
     transformText(result.reversed).reversed = inputText

\* C15: reverse reverses the order of the code points of the text, so a
\* character encoded as more than one unit (a surrogate pair) appears
\* intact in the output; stated for the reversed variant of index.js,
\* whose input is the trimmed input-text.
C15_ReverseKeepsCodePoints ==
  JsTransformed =>
     result.reversed = JsString(Reverse(Trim(env[EnvInputText])))

\* C16: uppercase is idempotent: uppercase applied to the output of
\* uppercase returns that output (the uppercase variant of transform in
\* index.js, the uppercase branch of entrypoint.sh).
C16_UppercaseIsIdempotent ==
  /\ JsTransformed =>
       transformText(result.uppercase).uppercase = result.uppercase
  /\ (DockerDispatched /\ PROCESS_TYPE = OpUppercase) =>
       CaseProcessType(OpUppercase, RESULT, COLOR_OUTPUT).RESULT = RESULT

\* the part of C16 that index.js satisfies
C16_JsUppercaseIsIdempotent ==
  JsTransformed =>
     transformText(result.uppercase).uppercase = result.uppercase

\* the call in progress has returned its result, and the remembered call
\* was made with the same text and the same operation name
Returned   == JsDispatched \/ DockerDispatched
SameAsEarlier ==
  /\ earlier # NoCall
  /\ earlier.host = CallKey.host
  /\ earlier.text = CallKey.text
  /\ earlier.op = CallKey.op

C17_WitnessDocker ==
  /\ DockerDispatched
  /\ SameAsEarlier
  /\ earlier.between >= 1
  /\ MESSAGE = <<"e", " ", "E">>
  /\ PROCESS_TYPE = OpReverse
  /\ RESULT = <<"E", " ", "e">>
  /\ RESULT = earlier.result

\* the text of the output file, and the text of the three entries the
\* script appends: result, timestamp and container-info, in this order
FileText ==
  Concat([i \in 1..Len(outputFile) |-> outputFile[i] \o <<"\n">>])
ThreeEntries ==
  StrResultEq \o RESULT \o <<"\n">>
    \o StrTimestampEq \o DateUtc(now) \o <<"\n">>
    \o StrContainerInfoEq \o ContainerInfo(PROCESS_TYPE) \o <<"\n">>
DockerValidated == host = "docker" /\ pc = "done" /\ MESSAGE # <<>>

\* C18: entrypoint.sh tests GITHUB_OUTPUT before it writes: set and
\* non-empty, the file receives exactly the entries result, timestamp and
\* container-info, in this order; unset or empty, nothing is written; in
\* both cases a run that passed the validation of its arguments exits
\* with status 0.
C18_ChecksGithubOutputBeforeWriting ==
  /\ DockerValidated =>
       /\ exitStatus = 0
       /\ GithubOutputUsable => FileText = ThreeEntries
       /\ ~GithubOutputUsable => outputFile = <<>>
  /\ (host = "docker" /\ pc # "done") => outputFile = <<>>

C18_Witness ==
  /\ DockerValidated
  /\ GITHUB_OUTPUT = "/github/file_commands/set_output"
  /\ MESSAGE = <<"e", " ", "E">>
  /\ PROCESS_TYPE = OpUppercase
  /\ outputFile[1] = StrResultEq \o <<"E", " ", "E">>
  /\ outputFile[2] = StrTimestampEq \o DateUtc(1)
  /\ HasPrefix(outputFile[3], StrContainerInfoEq)
  /\ exitStatus = 0

C18_WitnessUnset ==
  /\ DockerValidated
  /\ GITHUB_OUTPUT = "<unset>"
  /\ MESSAGE = <<"e", " ", "E">>
  /\ outputFile = <<>>
  /\ exitStatus = 0

\* C19: every output entrypoint.sh writes (result, timestamp,
\* container-info) occupies exactly one line of the output file, a
\* key=value pair, for every message and process type.
C19_OneLinePerOutput ==
  (DockerValidated /\ GithubOutputUsable) =>
     /\ Len(outputFile) = 3
     /\ HasPrefix(outputFile[1], StrResultEq)
     /\ HasPrefix(outputFile[2], StrTimestampEq)
     /\ HasPrefix(outputFile[3], StrContainerInfoEq)

\* the part of C19 that holds: timestamp is one line, and so is result
\* when the result has no newline in it
C19_TimestampAndPlainResultOneLine ==
  (DockerValidated /\ GithubOutputUsable) =>
     /\ Cardinality({i \in DOMAIN outputFile :
                       HasPrefix(outputFile[i], StrTimestampEq)}) = 1
     /\ NewlineCount(RESULT) = 0 =>
          /\ outputFile[1] = StrResultEq \o RESULT
          /\ HasPrefix(outputFile[2], StrTimestampEq)

\* the names of the outputs set so far, in the order of the setOutput calls
OutputNames == [i \in DOMAIN outputs |-> outputs[i].name]
JsEnded     == host = "js" /\ pc = "done"

\* C20: in index.js outputs are all-or-nothing: a run ends either with
\* setFailed called exactly once and no output set, or with setFailed never
\* called and the outputs processed-text, operation-type, timestamp,
\* metadata set exactly once each, in this order; every error thrown
\* inside run() is caught and handed to setFailed, so run() never rejects.
C20_OutputsAllOrNothing ==
  /\ JsEnded =>
       \/ /\ Len(failures) = 1
          /\ outputs = <<>>
          /\ exitStatus = 1
       \/ /\ failures = <<>>
          /\ OutputNames = <<"processed-text", "operation-type",
                             "timestamp", "metadata">>
          /\ exitStatus = 0
  /\ JsEnded => (error # NoError <=> failures = <<error>>)
  /\ (host = "js" /\ (failures # <<>> \/ pc = "js_catch")) => outputs = <<>>

C20_Witness ==
  /\ JsEnded
  /\ inputText = <<"e", " ", "E">>
  /\ error = "context is not available"
  /\ failures = <<error>>
  /\ outputs = <<>>
  /\ exitStatus = 1

C20_WitnessSuccess ==
  /\ JsEnded
  /\ inputText = <<"e", " ", "E">>
  /\ failures = <<>>
  /\ Len(outputs) = 4
  /\ outputs[4].name = "metadata"
  /\ exitStatus = 0

\* the value given to an output of index.js, and the operation name as the
\* caller supplied it ('' when the input is not set)
JsOutputsSet == host = "js" /\ Len(outputs) = 4
OutputValue(name) ==
  outputs[CHOOSE i \in DOMAIN outputs : outputs[i].name = name].value
ReceivedOperation ==
  IF EnvOperationType \in DOMAIN env THEN JsString(env[EnvOperationType])
  ELSE <<>>

\* C21 (as claimed): the operation-type output of index.js is the operation
\* name exactly as received, or 'analyze' when none was supplied; it is
\* neither lower-cased nor replaced by the fallback, so after an
\* unrecognised name it still carries that name while the metadata output
\* is tagged 'analysis'.
C21_OperationTypeOutputAsReceived ==
  JsOutputsSet =>
     /\ OutputValue("operation-type") =
          IF ReceivedOperation = <<>> THEN OpAnalyze ELSE ReceivedOperation
     /\ toLowerCase(operationType) \notin JsKnownOps =>
          OutputValue("metadata")[2].type = "analysis"

\* C21 (amended): the operation-type output of index.js is the operation
\* name as received with the white space around it removed, or 'analyze'
\* when nothing but white space was supplied; it is neither lower-cased
\* nor replaced by the fallback, so after an unrecognised name it still
\* carries that name while the metadata output is tagged 'analysis'.
C21_OperationTypeOutputAsReceivedTrimmed ==
  JsOutputsSet =>
     /\ OutputValue("operation-type") =
          IF Trim(ReceivedOperation) = <<>> THEN OpAnalyze
          ELSE Trim(ReceivedOperation)
     /\ toLowerCase(operationType) \notin JsKnownOps =>
          OutputValue("metadata")[2].type = "analysis"

C21_Witness ==
  /\ JsSucceeded
  /\ ReceivedOperation = OpNoSuch
  /\ inputText = <<"e", " ", "E">>
  /\ OutputValue("operation-type") = OpNoSuch
  /\ OutputValue("metadata")[2].type = "analysis"
  /\ OutputValue("metadata")[2].wordCount = 2

C21_WitnessPadded ==
  /\ JsSucceeded
  /\ ReceivedOperation = PaddedOp
  /\ OutputValue("operation-type") = CapitalizeWord(OpTransform)
  /\ OutputValue("metadata")[2].type = "transformation"

C21_WitnessUpperCase ==
  /\ JsSucceeded
  /\ ReceivedOperation = TrUpper(OpValidate)
  /\ OutputValue("operation-type") = TrUpper(OpValidate)
  /\ OutputValue("metadata")[2].type = "validation"

\* the warning-level events of the log, in the order they were emitted
IsWarning(ev)  == ev.level = "warning"
Warnings       == SelectSeq(log, IsWarning)
UnknownWarning == Event("warning", UnknownOperationWarning)
DemoWarning    == Event("warning", "This is a warning")
JsRecognised   == toLowerCase(operationType) \in JsKnownOps

\* C22: every successful run of index.js emits a warning-level event:
\* exactly one when the operation is analyze, transform or validate, and
\* exactly two when the operation name is unrecognised; the
\* unknown-operation warning comes before any output is set, the other
\* warning after all outputs are set.
C22_WarningsOfSuccessfulRun ==
  /\ (JsSucceeded /\ JsRecognised) => Warnings = <<DemoWarning>>
  /\ (JsSucceeded /\ ~JsRecognised) => Warnings = <<UnknownWarning, DemoWarning>>
  /\ (host = "js" /\ pc = "js_set_outputs") =>
       /\ outputs = <<>>
       /\ Warnings = IF JsRecognised THEN <<>> ELSE <<UnknownWarning>>
  /\ (host = "js" /\ InLog(DemoWarning)) => Len(outputs) = 4
  /\ (host = "js" /\ pc = "js_logging") =>
       /\ Len(outputs) = 4
       /\ ~InLog(DemoWarning)

C22_Witness ==
  /\ JsSucceeded
  /\ operationType = OpNoSuch
  /\ inputText = <<"e", " ", "E">>
  /\ Warnings = <<UnknownWarning, DemoWarning>>
  /\ Len(outputs) = 4

C22_WitnessRecognised ==
  /\ JsSucceeded
  /\ operationType = TrUpper(OpTransform)
  /\ inputText = <<"e", " ", "E">>
  /\ Warnings = <<DemoWarning>>
  /\ Len(outputs) = 4

\* the lines printed with an ANSI colour code around them
ColouredLines == {i \in DOMAIN stdout : stdout[i].color # "none"}
DockerRunning == host = "docker" /\ pc # "idle"

\* C23: in entrypoint.sh the color-output argument affects only how the
\* log lines are formatted: the result is the one the same message and
\* process type give under every other value of color-output, the exit
\* status depends on the message alone, and colour codes are used only
\* when color-output is exactly "true", which is also the default when
\* the argument is absent.
C23_ColorAffectsOnlyFormatting ==
  /\ DockerDispatched =>
       \A c \in ColorArgs \ {""} :
          RESULT = CaseProcessType(PROCESS_TYPE, MESSAGE, c).RESULT
  /\ (DockerRunning /\ pc = "done") =>
       exitStatus = IF MESSAGE = <<>> THEN 1 ELSE 0
  /\ (DockerRunning /\ COLOR_OUTPUT # "true") => ColouredLines = {}
  /\ (DockerRunning /\ COLOR_OUTPUT = "true" /\ DockerDispatched) =>
       ColouredLines # {}
  /\ DockerRunning =>
       COLOR_OUTPUT = IF Len(argv) < 3 \/ argv[3] = "" THEN "true" ELSE argv[3]

C23_Witness ==
  /\ DockerSucceeded
  /\ argv = << <<"e">>, OpUppercase, "TRUE" >>
  /\ RESULT = <<"E">>
  /\ ColouredLines = {}
  /\ exitStatus = 0

C23_WitnessDefault ==
  /\ DockerSucceeded
  /\ argv = << <<"e">>, OpUppercase >>
  /\ RESULT = <<"E">>
  /\ ColouredLines # {}
  /\ exitStatus = 0

====
